---- MODULE Spec2Model ----
(***************************************************************************)
(* The OTP service of src/src/services/otp.service.ts: sendOtp, resendOtp  *)
(* and verifyOtp running as concurrent request handlers against the three  *)
(* tables of src/src/db/schema.ts.  Every await of a handler is one step;  *)
(* the store executes one statement at a time and the wall clock advances  *)
(* between steps.                                                          *)
(*                                                                         *)
(* Time is counted in milliseconds, as in the code.  The clock advances in *)
(* steps of TickMs.  The three durations of src/src/config/otp.ts are set  *)
(* (they are read from the environment) to whole multiples of TickMs that  *)
(* keep the order of the defaults: expiry < resend window < one hour <=    *)
(* uniqueness window.                                                      *)
(***************************************************************************)
EXTENDS Integers, Sequences, FiniteSets, TLC

VARIABLES clock, otpRecords, otpHistory, otpRateLimit, pc, req, requests,
          lastVerified

vars == <<clock, otpRecords, otpHistory, otpRateLimit, pc, req, requests,
          lastVerified>>

(***************************************************************************)
(* Configuration, src/src/config/otp.ts                                    *)
(***************************************************************************)
OTP_EXPIRY_SECONDS == 900
OTP_RESEND_WINDOW_MINUTES == 45
MAX_RESEND_COUNT == 2
MAX_OTP_REQUESTS_PER_HOUR == 2
OTP_UNIQUENESS_WINDOW_HOURS == 1

(***************************************************************************)
(* Bounds of the model                                                     *)
(***************************************************************************)
\* requests served one at a time: clock ticks and requests received
MaxTicks == 5
MaxRequests == 4
\* requests served concurrently
ConcTicks == 3
ConcRequests == 3
\* one identity written in several ways
NormTicks == 1
NormRequests == 3
\* requests served one at a time over a failing store
FailTicks == 3
FailRequests == 4
\* requests served one at a time from a store with several active records
SeedTicks == 5
SeedRequests == 3
\* concurrent requests on a code near the end of its resend allowance
RaceTicks == 1
RaceRequests == 3

TickMs == 15 * 60 * 1000
Procs == {1, 2}

ExpiryMs == OTP_EXPIRY_SECONDS * 1000
ResendWindowMs == OTP_RESEND_WINDOW_MINUTES * 60 * 1000
HourMs == 60 * 60 * 1000
UniquenessWindowMs == OTP_UNIQUENESS_WINDOW_HOURS * 60 * 60 * 1000

(***************************************************************************)
(* Strings are sequences of one-character strings.                         *)
(***************************************************************************)
Digits == <<"0", "1", "2", "3", "4", "5", "6", "7", "8", "9">>

toLowerCaseChar(c) == IF c = "A" THEN "a" ELSE IF c = "B" THEN "b" ELSE c

toLowerCase(s) == [i \in 1..Len(s) |-> toLowerCaseChar(s[i])]

RECURSIVE trimStart(_)
trimStart(s) == IF s # <<>> /\ Head(s) = " " THEN trimStart(Tail(s)) ELSE s

RECURSIVE trimEnd(_)
trimEnd(s) ==
  IF s # <<>> /\ s[Len(s)] = " " THEN trimEnd(SubSeq(s, 1, Len(s) - 1)) ELSE s

trim(s) == trimEnd(trimStart(s))

\* faulty variant: the identity lowercased but not trimmed
normalizeEmail_noTrim(email) == toLowerCase(email)

\* email.toLowerCase().trim()
normalizeEmail(email) == trim(toLowerCase(email))

RECURSIVE toString(_)
toString(n) ==
  IF n < 10 THEN <<Digits[n + 1]>>
  ELSE Append(toString(n \div 10), Digits[(n % 10) + 1])

RECURSIVE padStart(_, _, _)
padStart(s, targetLength, padChar) ==
  IF Len(s) >= targetLength THEN s
  ELSE padStart(<<padChar>> \o s, targetLength, padChar)

RECURSIVE pow10(_)
pow10(k) == IF k = 0 THEN 1 ELSE 10 * pow10(k - 1)

(***************************************************************************)
(* generateOTP: draw is Math.floor(Math.random() * (max - min + 1)), a     *)
(* number in 0 .. max - min.                                               *)
(***************************************************************************)
otpLength == 6
otpMin == pow10(otpLength - 1)
otpMax == pow10(otpLength) - 1

generateOTP(draw) == padStart(toString(draw + otpMin), otpLength, "0")

\* the outcomes of Math.random() the model draws
RandomDraws == {0, otpMax - otpMin}

DrawnCodes == {generateOTP(d) : d \in RandomDraws}

(***************************************************************************)
(* Inputs of the requests                                                  *)
(***************************************************************************)
RawEmails == {<<"a">>, <<" ", "A">>, <<"b">>}
ConcRawEmails == {<<" ", "A">>}
NormRawEmails == {<<"a">>, <<" ", "A", " ">>}
Emails == {normalizeEmail(e) : e \in RawEmails \cup ConcRawEmails \cup NormRawEmails}
WrongCode == <<"0", "0", "0", "0", "0", "0">>
RawOtps == DrawnCodes \cup {WrongCode} \cup {Append(c, " ") : c \in DrawnCodes}

NoCode == <<>>
NoEmail == <<>>

\* the locals of a request handler: the operation, the identity as supplied
\* (raw) and the normalized arguments, the row a lookup returned (rec, with its resendCount cnt), the
\* expiry computed for the update (exp), and the outcome
idleReq ==
  [op |-> "none", raw |-> NoEmail, email |-> NoEmail, otp |-> NoCode, rec |-> 0,
   cnt |-> 0, exp |-> 0, draw |-> -1, mail |-> "none", result |-> "none"]

\* what a specification lets the environment do: clock ticks, requests
\* received, and the raw identities the requests carry
SeqLimits == [ticks |-> MaxTicks, requests |-> MaxRequests, raws |-> RawEmails]
ConcLimits == [ticks |-> ConcTicks, requests |-> ConcRequests, raws |-> ConcRawEmails]
NormLimits == [ticks |-> NormTicks, requests |-> NormRequests, raws |-> NormRawEmails]
SeedLimits == [ticks |-> SeedTicks, requests |-> SeedRequests, raws |-> ConcRawEmails]
RaceLimits == [ticks |-> RaceTicks, requests |-> RaceRequests, raws |-> ConcRawEmails]
FailLimits == [ticks |-> FailTicks, requests |-> FailRequests, raws |-> ConcRawEmails]

(***************************************************************************)
(* Queries of the store                                                    *)
(***************************************************************************)
IsActive(r) == ~r.used /\ ~r.invalidated

ActiveIds(records, email) ==
  {i \in DOMAIN records : records[i].email = email /\ IsActive(records[i])}

\* select ... where active order by createdAt desc limit 1: the row, or 0 for
\* null; rows with equal createdAt come in any order
getLatestActiveOtp(records, email) ==
  IF ActiveIds(records, email) = {} THEN {0}
  ELSE {i \in ActiveIds(records, email) :
          \A j \in ActiveIds(records, email) :
            records[j].createdAt <= records[i].createdAt}

\* faulty variant: the entry stamped exactly one hour ago is left out
rateLimitCount_exclusive(entries, email, now) ==
  Cardinality({i \in DOMAIN entries :
                 entries[i].email = email /\ entries[i].requestedAt > now - HourMs})

rateLimitCount(entries, email, now) ==
  Cardinality({i \in DOMAIN entries :
                 entries[i].email = email /\ entries[i].requestedAt >= now - HourMs})

\* faulty variant: the ceiling compared with > instead of >=
checkRateLimitThrows_offByOne(entries, email, now) ==
  rateLimitCount(entries, email, now) > MAX_OTP_REQUESTS_PER_HOUR

checkRateLimitThrows(entries, email, now) ==
  rateLimitCount(entries, email, now) >= MAX_OTP_REQUESTS_PER_HOUR

\* faulty variant: the history is not consulted
getUsedOtpsInWindow_none(history, email, now) == {}

getUsedOtpsInWindow(history, email, now) ==
  {history[i].otpCode : i \in {j \in DOMAIN history :
       history[j].email = email /\ history[j].createdAt >= now - UniquenessWindowMs}}

maxAttempts == 100

\* generateOTP for each value of the draw
CodeOfDraw == [d \in RandomDraws |-> generateOTP(d)]

\* for (let i = 0; i < n; i++) { draw; if the code is not used, return it }
\* throw: every way the loop can end, as the code returned and the draw
\* behind it, or NoCode for the throw, with the number of draws made.  Pass
\* i is reached when every earlier draw gave a used code.
generateUniqueOtpLoop(usedOtps, n) ==
  LET fresh == {d \in RandomDraws : CodeOfDraw[d] \notin usedOtps}
      hit == \E d \in RandomDraws : CodeOfDraw[d] \in usedOtps
      passes == {i \in 0..(n - 1) : i = 0 \/ hit}
  IN  {[otp |-> CodeOfDraw[d], draw |-> d, attempts |-> i + 1] :
          i \in passes, d \in fresh}
      \cup (IF n = 0 \/ hit
            THEN {[otp |-> NoCode, draw |-> -1, attempts |-> n]}
            ELSE {})

\* faulty variant: the loop runs while i <= maxAttempts
generateUniqueOtp_oneMore(usedOtps) ==
  generateUniqueOtpLoop(usedOtps, maxAttempts + 1)

generateUniqueOtp(usedOtps) == generateUniqueOtpLoop(usedOtps, maxAttempts)

\* what generateUniqueOtp hands back to sendOtp: the code (with the draw
\* behind it) or the throw
generateUniqueOtpResults(usedOtps) ==
  {[otp |-> o.otp, draw |-> o.draw] : o \in generateUniqueOtp(usedOtps)}

\* faulty variant: the resend window taken to end when the code expires
canResendExistingOtp_byExpiry(otp, now) == now < otp.expiresAt

\* faulty variant: the end of the resend window counted as inside it
canResendExistingOtp_inclusive(otp, now) == now <= otp.createdAt + ResendWindowMs

canResendExistingOtp(otp, now) == now < otp.createdAt + ResendWindowMs

\* faulty variant: the resend count compared with > instead of >=
resendCountExceeded_offByOne(otp) == otp.resendCount > MAX_RESEND_COUNT

resendCountExceeded(otp) == otp.resendCount >= MAX_RESEND_COUNT

\* faulty variant: the instant of expiry counted as expired
isExpired_inclusive(otp, now) == now >= otp.expiresAt

isExpired(otp, now) == now > otp.expiresAt

constantTimeCompare(a, b) ==
  IF Len(a) # Len(b) THEN FALSE
  ELSE \A i \in 1..Len(a) : a[i] = b[i]

\* faulty variant: the supersede step marks only one active row
invalidateOldOtps_onlyOne(records, email) ==
  [i \in DOMAIN records |->
     IF i \in ActiveIds(records, email)
        /\ \A j \in ActiveIds(records, email) : i <= j
     THEN [records[i] EXCEPT !.invalidated = TRUE]
     ELSE records[i]]

\* faulty variant: the supersede step leaves the old rows alone
invalidateOldOtps_skipped(records, email) == records

\* faulty variant: the supersede step forgets the identity
invalidateOldOtps_everyone(records, email) ==
  [i \in DOMAIN records |->
     IF IsActive(records[i])
     THEN [records[i] EXCEPT !.invalidated = TRUE]
     ELSE records[i]]

invalidateOldOtps(records, email) ==
  [i \in DOMAIN records |->
     IF records[i].email = email /\ IsActive(records[i])
     THEN [records[i] EXCEPT !.invalidated = TRUE]
     ELSE records[i]]

\* faulty variant: the expiry is not pushed past the present
newExpiresAt_now(now) == now

\* new Date(Date.now() + config.OTP_EXPIRY_SECONDS * 1000)
newExpiresAt(now) == now + ExpiryMs

\* faulty variant: the record is born at its expiry
newOtpRecord_expired(email, otp, now) ==
  [email |-> email, otpCode |-> otp, createdAt |-> now,
   expiresAt |-> now, resendCount |-> 0,
   used |-> FALSE, invalidated |-> FALSE]

newOtpRecord(email, otp, now) ==
  [email |-> email, otpCode |-> otp, createdAt |-> now,
   expiresAt |-> newExpiresAt(now), resendCount |-> 0,
   used |-> FALSE, invalidated |-> FALSE]

\* faulty variant: the resend writes the whole row back as it was read,
\* active
setResent_revives(records, id, resendCount, expiresAt) ==
  [records EXCEPT ![id].resendCount = resendCount, ![id].expiresAt = expiresAt,
                  ![id].used = FALSE, ![id].invalidated = FALSE]

\* faulty variant: the resend also restarts the record's resend window
setResent_restamps(records, id, resendCount, expiresAt) ==
  [records EXCEPT ![id].resendCount = resendCount, ![id].expiresAt = expiresAt,
                  ![id].createdAt = expiresAt - ExpiryMs]

\* faulty variant: the resend adds one to the stored count instead of
\* writing the count it read plus one
setResent_increments(records, id, resendCount, expiresAt) ==
  [records EXCEPT ![id].resendCount = @ + 1, ![id].expiresAt = expiresAt]

\* update ... set resendCount, expiresAt where id
setResent(records, id, resendCount, expiresAt) ==
  [records EXCEPT ![id].resendCount = resendCount, ![id].expiresAt = expiresAt]

\* faulty variant: the verified row is not marked
setUsed_skipped(records, id) == records

\* update ... set used = true where id
setUsed(records, id) == [records EXCEPT ![id].used = TRUE]

(***************************************************************************)
(* Initial state: empty tables, no request in flight.  requests counts the *)
(* requests received.  lastVerified is a history variable: for each        *)
(* identity, the code of its last successful verify, cleared by the next   *)
(* send for the identity.                                                  *)
(***************************************************************************)
Init ==
  /\ clock = 0
  /\ otpRecords = <<>>
  /\ otpHistory = <<>>
  /\ otpRateLimit = <<>>
  /\ pc = [p \in Procs |-> "idle"]
  /\ req = [p \in Procs |-> idleReq]
  /\ requests = 0
  /\ lastVerified = [e \in Emails |-> NoCode]

Tick(L) ==
  /\ clock < L.ticks * TickMs
  /\ clock' = clock + TickMs
  /\ UNCHANGED <<otpRecords, otpHistory, otpRateLimit, pc, req, requests, lastVerified>>

Idle(p) == pc[p] \in {"idle", "done"}

Receive(p, L) ==
  /\ Idle(p)
  /\ requests < L.requests
  /\ requests' = requests + 1

\* the handler returns or throws: its locals are gone, the outcome stays
Finish(p, r, outcome) ==
  /\ pc' = [pc EXCEPT ![p] = "done"]
  /\ req' = [req EXCEPT ![p] = [r EXCEPT !.cnt = 0, !.exp = 0, !.result = outcome]]

Goto(p, label, r) ==
  /\ pc' = [pc EXCEPT ![p] = label]
  /\ req' = [req EXCEPT ![p] = r]

(***************************************************************************)
(* sendOtp                                                                 *)
(***************************************************************************)
\* faulty variant: the request is logged before it is counted
SendCheckRateLimit_recordsFirst(p, L) ==
  /\ Receive(p, L)
  /\ \E raw \in L.raws :
       LET r == [idleReq EXCEPT !.op = "send", !.raw = raw,
                                !.email = normalizeEmail(raw)]
           logged == Append(otpRateLimit, [email |-> r.email, requestedAt |-> clock])
       IN /\ IF rateLimitCount(logged, r.email, clock) > MAX_OTP_REQUESTS_PER_HOUR
             THEN Finish(p, r, "RateLimitError") /\ otpRateLimit' = logged
             ELSE Goto(p, "recordRateLimit", r) /\ UNCHANGED otpRateLimit
          /\ lastVerified' = [lastVerified EXCEPT ![r.email] = NoCode]
  /\ UNCHANGED <<clock, otpRecords, otpHistory>>

\* sendOtp entered: normalizeEmail, then checkRateLimit
SendCheckRateLimit(p, L) ==
  /\ Receive(p, L)
  /\ \E raw \in L.raws :
       LET r == [idleReq EXCEPT !.op = "send", !.raw = raw,
                                !.email = normalizeEmail(raw)]
       IN /\ IF checkRateLimitThrows(otpRateLimit, r.email, clock)
             THEN Finish(p, r, "RateLimitError")
             ELSE Goto(p, "recordRateLimit", r)
          /\ lastVerified' = [lastVerified EXCEPT ![r.email] = NoCode]
  /\ UNCHANGED <<clock, otpRecords, otpHistory, otpRateLimit>>

\* faulty variant: the send goes on without logging itself
SendRecordRateLimit_skipped(p) ==
  /\ pc[p] = "recordRateLimit"
  /\ Goto(p, "findExisting", req[p])
  /\ UNCHANGED <<clock, otpRecords, otpHistory, otpRateLimit, requests, lastVerified>>

\* db.insert(otpRateLimit)
SendRecordRateLimit(p) ==
  /\ pc[p] = "recordRateLimit"
  /\ otpRateLimit' = Append(otpRateLimit,
                            [email |-> req[p].email, requestedAt |-> clock])
  /\ Goto(p, "findExisting", req[p])
  /\ UNCHANGED <<clock, otpRecords, otpHistory, requests, lastVerified>>

\* getLatestActiveOtp, then canResendExistingOtp
SendFindExisting(p) ==
  /\ pc[p] = "findExisting"
  /\ \E id \in getLatestActiveOtp(otpRecords, req[p].email) :
       IF id # 0 /\ canResendExistingOtp(otpRecords[id], clock)
       THEN Goto(p, "resend", req[p])
       ELSE Goto(p, "generate", req[p])
  /\ UNCHANGED <<clock, otpRecords, otpHistory, otpRateLimit, requests, lastVerified>>

\* generateUniqueOtp: the history scan, then up to maxAttempts draws
SendGenerate(p) ==
  /\ pc[p] = "generate"
  /\ \E o \in generateUniqueOtpResults(
                getUsedOtpsInWindow(otpHistory, req[p].email, clock)) :
       IF o.otp = NoCode
       THEN Finish(p, req[p], "GenerationExhausted")
       ELSE Goto(p, "invalidate", [req[p] EXCEPT !.otp = o.otp, !.draw = o.draw])
  /\ UNCHANGED <<clock, otpRecords, otpHistory, otpRateLimit, requests, lastVerified>>

\* invalidateOldOtps
SendInvalidate(p) ==
  /\ pc[p] = "invalidate"
  /\ otpRecords' = invalidateOldOtps(otpRecords, req[p].email)
  /\ Goto(p, "insertRecord", req[p])
  /\ UNCHANGED <<clock, otpHistory, otpRateLimit, requests, lastVerified>>

\* db.insert(otpRecords)
SendInsertRecord(p) ==
  /\ pc[p] = "insertRecord"
  /\ otpRecords' = Append(otpRecords, newOtpRecord(req[p].email, req[p].otp, clock))
  /\ Goto(p, "insertHistory", [req[p] EXCEPT !.rec = Len(otpRecords) + 1])
  /\ UNCHANGED <<clock, otpHistory, otpRateLimit, requests, lastVerified>>

\* faulty variant: the history keeps one entry per identity
SendInsertHistory_upserts(p) ==
  /\ pc[p] = "insertHistory"
  /\ otpHistory' = Append(SelectSeq(otpHistory, LAMBDA h : h.email # req[p].email),
       [email |-> req[p].email, otpCode |-> req[p].otp, createdAt |-> clock])
  /\ Goto(p, "sendEmail", req[p])
  /\ UNCHANGED <<clock, otpRecords, otpRateLimit, requests, lastVerified>>

\* db.insert(otpHistory)
SendInsertHistory(p) ==
  /\ pc[p] = "insertHistory"
  /\ otpHistory' = Append(otpHistory,
       [email |-> req[p].email, otpCode |-> req[p].otp, createdAt |-> clock])
  /\ Goto(p, "sendEmail", req[p])
  /\ UNCHANGED <<clock, otpRecords, otpRateLimit, requests, lastVerified>>

\* faulty variant: a mail error is logged and the handler returns normally
SendEmail_swallowsFailure(p) ==
  /\ pc[p] \in {"sendEmail", "resendEmail"}
  /\ \/ Finish(p, [req[p] EXCEPT !.mail = "sent"], "ok")
     \/ Finish(p, [req[p] EXCEPT !.mail = "failed"], "ok")
  /\ UNCHANGED <<clock, otpRecords, otpHistory, otpRateLimit, requests, lastVerified>>

\* sendOtpEmail: returns, or throws when the mail API reports an error
SendEmail(p) ==
  /\ pc[p] \in {"sendEmail", "resendEmail"}
  /\ \/ Finish(p, [req[p] EXCEPT !.mail = "sent"], "ok")
     \/ Finish(p, [req[p] EXCEPT !.mail = "failed"], "EmailFailed")
  /\ UNCHANGED <<clock, otpRecords, otpHistory, otpRateLimit, requests, lastVerified>>

(***************************************************************************)
(* resendOtp                                                               *)
(***************************************************************************)
\* faulty variant: the resend count is checked before the resend window
resendChecks_countFirst(p, r) ==
  \E id \in getLatestActiveOtp(otpRecords, r.email) :
    IF id = 0 THEN Finish(p, r, "OtpNotFoundError")
    ELSE IF resendCountExceeded(otpRecords[id])
    THEN Finish(p, r, "MaxResendExceededError")
    ELSE IF ~canResendExistingOtp(otpRecords[id], clock)
    THEN Finish(p, r, "OtpExpiredError")
    ELSE Goto(p, "resendUpdate",
              [r EXCEPT !.rec = id, !.otp = otpRecords[id].otpCode,
                        !.cnt = otpRecords[id].resendCount,
                        !.exp = newExpiresAt(clock)])

\* getLatestActiveOtp and the three checks, up to the update's await
resendChecks(p, r) ==
  \E id \in getLatestActiveOtp(otpRecords, r.email) :
    IF id = 0 THEN Finish(p, r, "OtpNotFoundError")
    ELSE IF ~canResendExistingOtp(otpRecords[id], clock)
    THEN Finish(p, r, "OtpExpiredError")
    ELSE IF resendCountExceeded(otpRecords[id])
    THEN Finish(p, r, "MaxResendExceededError")
    ELSE Goto(p, "resendUpdate",
              [r EXCEPT !.rec = id, !.otp = otpRecords[id].otpCode,
                        !.cnt = otpRecords[id].resendCount,
                        !.exp = newExpiresAt(clock)])

\* resendOtp called by the route
ResendStart(p, L) ==
  /\ Receive(p, L)
  /\ \E raw \in L.raws :
       resendChecks(p, [idleReq EXCEPT !.op = "resend", !.raw = raw,
                                       !.email = normalizeEmail(raw)])
  /\ UNCHANGED <<clock, otpRecords, otpHistory, otpRateLimit, lastVerified>>

\* resendOtp called by sendOtp
ResendDelegated(p) ==
  /\ pc[p] = "resend"
  /\ resendChecks(p, req[p])
  /\ UNCHANGED <<clock, otpRecords, otpHistory, otpRateLimit, requests, lastVerified>>

\* db.update(otpRecords).set({resendCount, expiresAt}).where(id)
ResendUpdate(p) ==
  /\ pc[p] = "resendUpdate"
  /\ otpRecords' = setResent(otpRecords, req[p].rec, req[p].cnt + 1, req[p].exp)
  /\ Goto(p, "resendEmail", req[p])
  /\ UNCHANGED <<clock, otpHistory, otpRateLimit, requests, lastVerified>>

(***************************************************************************)
(* verifyOtp                                                               *)
(***************************************************************************)
\* faulty variant: a verify with a wrong code burns the record
VerifyLookup_burnsOnMismatch(p, L) ==
  /\ Receive(p, L)
  /\ \E raw \in L.raws, rawOtp \in RawOtps :
       LET r == [idleReq EXCEPT !.op = "verify", !.raw = raw,
                                !.email = normalizeEmail(raw),
                                !.otp = trim(rawOtp)]
       IN \E id \in getLatestActiveOtp(otpRecords, r.email) :
            IF id = 0
            THEN Finish(p, r, "OtpNotFoundError") /\ UNCHANGED otpRecords
            ELSE IF isExpired(otpRecords[id], clock)
            THEN Finish(p, r, "OtpExpiredError") /\ UNCHANGED otpRecords
            ELSE IF ~constantTimeCompare(r.otp, otpRecords[id].otpCode)
            THEN /\ Finish(p, r, "InvalidOtpError")
                 /\ otpRecords' = setUsed(otpRecords, id)
            ELSE Goto(p, "verifyUpdate", [r EXCEPT !.rec = id])
                 /\ UNCHANGED otpRecords
  /\ UNCHANGED <<clock, otpHistory, otpRateLimit, lastVerified>>

\* verifyOtp entered: getLatestActiveOtp and the checks, up to the update's await
VerifyLookup(p, L) ==
  /\ Receive(p, L)
  /\ \E raw \in L.raws, rawOtp \in RawOtps :
       LET r == [idleReq EXCEPT !.op = "verify", !.raw = raw,
                                !.email = normalizeEmail(raw),
                                !.otp = trim(rawOtp)]
       IN \E id \in getLatestActiveOtp(otpRecords, r.email) :
            IF id = 0 THEN Finish(p, r, "OtpNotFoundError")
            ELSE IF isExpired(otpRecords[id], clock)
            THEN Finish(p, r, "OtpExpiredError")
            ELSE IF ~constantTimeCompare(r.otp, otpRecords[id].otpCode)
            THEN Finish(p, r, "InvalidOtpError")
            ELSE Goto(p, "verifyUpdate", [r EXCEPT !.rec = id])
  /\ UNCHANGED <<clock, otpRecords, otpHistory, otpRateLimit, lastVerified>>

\* db.update(otpRecords).set({used: true}).where(id)
VerifyUpdate(p) ==
  /\ pc[p] = "verifyUpdate"
  /\ otpRecords' = setUsed(otpRecords, req[p].rec)
  /\ Finish(p, req[p], "ok")
  /\ lastVerified' = [lastVerified EXCEPT ![req[p].email] = req[p].otp]
  /\ UNCHANGED <<clock, otpHistory, otpRateLimit, requests>>

(***************************************************************************)
(* The /api/otp/verify route: what it answers for each way verifyOtp ends  *)
(***************************************************************************)
\* faulty variant: each error class gets its own message
verifyResponse_distinct(outcome) ==
  CASE outcome = "ok" ->
         [status |-> 200, message |-> "OTP verified successfully"]
    [] outcome = "OtpNotFoundError" ->
         [status |-> 400, message |-> "No active OTP found for this email."]
    [] outcome = "OtpExpiredError" ->
         [status |-> 400, message |-> "This OTP code has expired. Please request a new one."]
    [] outcome = "InvalidOtpError" ->
         [status |-> 400, message |-> "The OTP code you entered is incorrect. Please check and try again."]
    [] OTHER ->
         [status |-> 500, message |-> "Something went wrong while verifying your OTP. Please try again in a moment."]

verifyResponse(outcome) ==
  CASE outcome = "ok" ->
         [status |-> 200, message |-> "OTP verified successfully"]
    [] outcome = "OtpNotFoundError" ->
         [status |-> 400, message |-> "Invalid or expired OTP"]
    [] outcome = "OtpExpiredError" ->
         [status |-> 400, message |-> "Invalid or expired OTP"]
    [] outcome = "InvalidOtpError" ->
         [status |-> 400, message |-> "Invalid or expired OTP"]
    [] OTHER ->
         [status |-> 500, message |-> "Something went wrong while verifying your OTP. Please try again in a moment."]

(***************************************************************************)
(* Store failures: any awaited db statement may reject; the handlers have  *)
(* no try/catch and no transaction, so the request ends there and what it  *)
(* wrote before stays                                                      *)
(***************************************************************************)
\* the positions whose next statement is a db statement
StoreLabels ==
  {"recordRateLimit", "findExisting", "generate", "invalidate", "insertRecord",
   "insertHistory", "resend", "resendUpdate", "verifyUpdate"}

\* faulty variant: a failing send takes its rate-limit entry back
StoreFails_rollsBack(p) ==
  /\ pc[p] \in StoreLabels
  /\ Finish(p, req[p], "StoreError")
  /\ otpRateLimit' =
       IF req[p].op = "send" /\ pc[p] # "recordRateLimit" /\ otpRateLimit # <<>>
       THEN SubSeq(otpRateLimit, 1, Len(otpRateLimit) - 1)
       ELSE otpRateLimit
  /\ UNCHANGED <<clock, otpRecords, otpHistory, requests, lastVerified>>

\* the db statement p is about to run rejects
StoreFails(p) ==
  /\ pc[p] \in StoreLabels
  /\ Finish(p, req[p], "StoreError")
  /\ UNCHANGED <<clock, otpRecords, otpHistory, otpRateLimit, requests, lastVerified>>

\* the first db statement of a handler rejects: the select of checkRateLimit
\* in sendOtp, of getLatestActiveOtp in resendOtp and verifyOtp
StoreFailsOnEntry(p, L) ==
  /\ Receive(p, L)
  /\ \E raw \in L.raws, o \in {"send", "resend", "verify"}, rawOtp \in RawOtps :
       Finish(p, [idleReq EXCEPT !.op = o, !.raw = raw,
                                 !.email = normalizeEmail(raw),
                                 !.otp = IF o = "verify" THEN trim(rawOtp) ELSE NoCode],
              "StoreError")
  /\ UNCHANGED <<clock, otpRecords, otpHistory, otpRateLimit, lastVerified>>

(***************************************************************************)
(* Specifications                                                          *)
(***************************************************************************)
Step(p, L) ==
  \/ SendCheckRateLimit(p, L)
  \/ SendRecordRateLimit(p)
  \/ SendFindExisting(p)
  \/ SendGenerate(p)
  \/ SendInvalidate(p)
  \/ SendInsertRecord(p)
  \/ SendInsertHistory(p)
  \/ SendEmail(p)
  \/ ResendStart(p, L)
  \/ ResendDelegated(p)
  \/ ResendUpdate(p)
  \/ VerifyLookup(p, L)
  \/ VerifyUpdate(p)

\* requests for one identity served concurrently, the clock advancing
\* between any two statements
Next == Tick(ConcLimits) \/ \E p \in Procs : Step(p, ConcLimits)

Spec == Init /\ [][Next]_vars

\* requests served one at a time, each run to completion, the clock
\* advancing between them
SeqTick == Idle(1) /\ Tick(SeqLimits)

SeqNext == SeqTick \/ Step(1, SeqLimits)

SeqSpec == Init /\ [][SeqNext]_vars

\* two clients that write one identity in different ways
NormNext == Tick(NormLimits) \/ \E p \in Procs : Step(p, NormLimits)

NormSpec == Init /\ [][NormNext]_vars

\* the stores two concurrent sends for one identity leave behind when both
\* take the new-code path: the first logged at 0, the second at time at,
\* both records and history entries written at time at, with codes c1, c2
SeedStore(e, at, c1, c2) ==
  [records |-> <<newOtpRecord(e, c1, at), newOtpRecord(e, c2, at)>>,
   history |-> <<[email |-> e, otpCode |-> c1, createdAt |-> at],
                 [email |-> e, otpCode |-> c2, createdAt |-> at]>>,
   rateLimit |-> <<[email |-> e, requestedAt |-> 0],
                   [email |-> e, requestedAt |-> at]>>,
   clock |-> at]

SeedStores ==
  {SeedStore(normalizeEmail(raw), at, c1, c2) :
     raw \in ConcRawEmails, at \in {0, TickMs}, c1 \in DrawnCodes, c2 \in DrawnCodes}

SeedInit ==
  /\ \E st \in SeedStores :
       /\ clock = st.clock
       /\ otpRecords = st.records
       /\ otpHistory = st.history
       /\ otpRateLimit = st.rateLimit
  /\ pc = [p \in Procs |-> "idle"]
  /\ req = [p \in Procs |-> idleReq]
  /\ requests = 0
  /\ lastVerified = [e \in Emails |-> NoCode]

\* requests served one at a time from a store with several active records
SeedNext == (Idle(1) /\ Tick(SeedLimits)) \/ Step(1, SeedLimits)

SeedSpec == SeedInit /\ [][SeedNext]_vars

\* the store after a send and k resends that were all made at time 0
RaceStore(e, c, k) ==
  [records |-> <<[newOtpRecord(e, c, 0) EXCEPT !.resendCount = k]>>,
   history |-> <<[email |-> e, otpCode |-> c, createdAt |-> 0]>>,
   rateLimit |-> <<[email |-> e, requestedAt |-> 0]>>]

RaceStores ==
  {RaceStore(normalizeEmail(raw), c, k) :
     raw \in ConcRawEmails, c \in DrawnCodes,
     k \in (MAX_RESEND_COUNT - 1)..MAX_RESEND_COUNT}

RaceInit ==
  /\ clock = 0
  /\ \E st \in RaceStores :
       /\ otpRecords = st.records
       /\ otpHistory = st.history
       /\ otpRateLimit = st.rateLimit
  /\ pc = [p \in Procs |-> "idle"]
  /\ req = [p \in Procs |-> idleReq]
  /\ requests = 0
  /\ lastVerified = [e \in Emails |-> NoCode]

\* concurrent requests for an identity whose code is at or one short of
\* its last resend
RaceNext == Tick(RaceLimits) \/ \E p \in Procs : Step(p, RaceLimits)

RaceSpec == RaceInit /\ [][RaceNext]_vars

\* requests served one at a time over a store whose statements may fail
FailNext ==
  \/ Idle(1) /\ Tick(FailLimits)
  \/ Step(1, FailLimits)
  \/ StoreFails(1)
  \/ StoreFailsOnEntry(1, FailLimits)

FailSpec == Init /\ [][FailNext]_vars

(***************************************************************************)
(* Properties                                                              *)
(***************************************************************************)
RecordsOf(e) == {i \in DOMAIN otpRecords : otpRecords[i].email = e}

\* p receives a request for operation o in this step
Receives(p, o) == Idle(p) /\ requests' = requests + 1 /\ req'[p].op = o

\* p's handler has ended with the given outcome after this step
Ends(p, outcome) == pc'[p] = "done" /\ req'[p].result = outcome

\* C1 (SeqSpec): with requests served one at a time from an empty store,
\* every identity has at most one code record that is neither used nor
\* invalidated.
C1_SingleActive ==
  \A e \in Emails : Cardinality(ActiveIds(otpRecords, e)) <= 1

\* a send has superseded an earlier code: one record invalidated, one active
C1_Witness ==
  \E e \in Emails :
    /\ Cardinality(ActiveIds(otpRecords, e)) = 1
    /\ \E i \in RecordsOf(e) : otpRecords[i].invalidated

\* C2 (Spec): when the only requests so far are concurrent sends for one
\* identity, started on an empty store, exactly one active record exists for
\* it once all of them have completed.
C2_OneActiveAfterConcurrentSends ==
  ( /\ requests = Cardinality(Procs)
    /\ \A p \in Procs : pc[p] = "done" /\ req[p].op = "send"
    /\ \A p, q \in Procs : req[p].email = req[q].email )
  => \A p \in Procs : Cardinality(ActiveIds(otpRecords, req[p].email)) = 1

\* C3 (SeqSpec): after a verify of an identity has succeeded and until the
\* next send for that identity, every verify for it with the same code ends
\* with OtpNotFoundError; and the row a verify marks used was not used before.
C3_SingleUse ==
  [][\A p \in Procs :
       /\ ( /\ Receives(p, "verify")
            /\ lastVerified[req'[p].email] # NoCode
            /\ req'[p].otp = lastVerified[req'[p].email] )
          => Ends(p, "OtpNotFoundError")
       /\ pc[p] = "verifyUpdate" => ~otpRecords[req[p].rec].used
    ]_vars

\* a verify with the code that was just verified has ended with OtpNotFoundError
C3_Witness ==
  \E p \in Procs :
    /\ pc[p] = "done" /\ req[p].op = "verify"
    /\ req[p].result = "OtpNotFoundError"
    /\ req[p].otp # NoCode
    /\ lastVerified[req[p].email] = req[p].otp

\* C4 (Spec): of two concurrent verifies that found the same code record,
\* at most one returns success.
C4_AtMostOneVerifySucceeds ==
  \A p, q \in Procs :
    ( /\ p # q
      /\ pc[p] = "done" /\ req[p].op = "verify" /\ req[p].result = "ok"
      /\ pc[q] = "done" /\ req[q].op = "verify" /\ req[q].result = "ok" )
    => req[p].rec # req[q].rec

\* the rate-limit entries of identity e stamped in [lo, hi]
EntriesIn(e, lo, hi) ==
  {i \in DOMAIN otpRateLimit :
     /\ otpRateLimit[i].email = e
     /\ lo <= otpRateLimit[i].requestedAt
     /\ otpRateLimit[i].requestedAt <= hi}

\* no hour that starts at an entry holds more than the ceiling (every
\* one-hour window's entries lie in the hour that starts at its first entry)
NoHourOverCeiling ==
  \A i \in DOMAIN otpRateLimit :
    Cardinality(EntriesIn(otpRateLimit[i].email, otpRateLimit[i].requestedAt,
                          otpRateLimit[i].requestedAt + HourMs))
      <= MAX_OTP_REQUESTS_PER_HOUR

C6_RateLimitAtomic ==
  \A e \in Emails : \A i \in EntriesIn(e, 0, clock) :
    Cardinality(EntriesIn(e, otpRateLimit[i].requestedAt - HourMs,
                          otpRateLimit[i].requestedAt))
      <= MAX_OTP_REQUESTS_PER_HOUR

\* the identity's latest active record, when it has one that is still inside
\* the resend window
InWindowIds(e) ==
  {i \in getLatestActiveOtp(otpRecords, e) \ {0} :
     clock < otpRecords[i].createdAt + ResendWindowMs}

\* p is inside a send that was handed over to resendOtp
InAutoResend(p) ==
  req[p].op = "send" /\ pc[p] \in {"resend", "resendUpdate", "resendEmail"}

\* the steps of a send that has passed the gate and finds record i active and
\* inside the resend window: it is handed over to resendOtp, which takes i's
\* code and writes i alone
AutoResendOf(p, i) ==
  /\ pc[p] = "findExisting" => pc'[p] = "resend"
  /\ (pc[p] = "resend" /\ req[p].op = "send")
       => /\ pc'[p] = "resendUpdate"
          /\ req'[p].rec = i
          /\ req'[p].otp = otpRecords[i].otpCode

C8_NewCodeWhenResendsExhausted ==
  [][\A p \in Procs :
       /\ \A i \in InWindowIds(req[p].email) :
            (pc[p] = "findExisting" /\ otpRecords[i].resendCount >= MAX_RESEND_COUNT)
              => pc'[p] = "generate"
       /\ req[p].op = "send" => ~Ends(p, "MaxResendExceededError")
    ]_vars

\* a verify with record i's code is turned down as expired
ExpiredVerifyOf(p, i) ==
  (Receives(p, "verify") /\ req'[p].otp = otpRecords[i].otpCode)
    => Ends(p, "OtpExpiredError")

\* the resend's write sets expiresAt to now + expiry and keeps the code; a
\* verify with the latest active record's code before its expiresAt marks
\* that record used and returns success
ExtendThenVerify(p) ==
  /\ pc[p] = "resendUpdate"
       => /\ otpRecords'[req[p].rec].expiresAt = clock + ExpiryMs
          /\ otpRecords'[req[p].rec].otpCode = otpRecords[req[p].rec].otpCode
  /\ \A i \in getLatestActiveOtp(otpRecords, req'[p].email) \ {0} :
       ( /\ Receives(p, "verify")
         /\ clock < otpRecords[i].expiresAt
         /\ req'[p].otp = otpRecords[i].otpCode )
       => pc'[p] = "verifyUpdate" /\ req'[p].rec = i
  /\ pc[p] = "verifyUpdate"
       => Ends(p, "ok") /\ otpRecords'[req[p].rec].used

\* C9 as stated (SeqSpec): while the active record has now >= expiresAt,
\* the instant now = expiresAt included, and is inside the resend window, a
\* verify with its code fails; a following send returns the same code with
\* expiresAt = now + expiry, and a verify before the new expiresAt succeeds.
C9_ExpiredFromExpiresAt ==
  [][\A p \in Procs :
       /\ \A i \in InWindowIds(req'[p].email) :
            clock >= otpRecords[i].expiresAt => ExpiredVerifyOf(p, i)
       /\ \A i \in InWindowIds(req[p].email) :
            ( /\ clock >= otpRecords[i].expiresAt
              /\ otpRecords[i].resendCount < MAX_RESEND_COUNT )
            => AutoResendOf(p, i)
       /\ ExtendThenVerify(p)
    ]_vars

\* C9 (SeqSpec): while the active record has now > expiresAt and is inside
\* the resend window, a verify with its code ends with OtpExpiredError; a
\* following send (the record's resendCount below MAX_RESEND_COUNT) takes the
\* same code and sets expiresAt = now + expiry; a verify with that code
\* before the new expiresAt succeeds.
C9_ExpiredButResendEligible ==
  [][\A p \in Procs :
       /\ \A i \in InWindowIds(req'[p].email) :
            clock > otpRecords[i].expiresAt => ExpiredVerifyOf(p, i)
       /\ \A i \in InWindowIds(req[p].email) :
            ( /\ clock > otpRecords[i].expiresAt
              /\ otpRecords[i].resendCount < MAX_RESEND_COUNT )
            => AutoResendOf(p, i)
       /\ ExtendThenVerify(p)
    ]_vars

\* a verify has succeeded on a record that was resent after its first expiry
\* had passed, before the extended expiry
C9_Witness ==
  \E p \in Procs :
    /\ pc[p] = "done" /\ req[p].op = "verify" /\ req[p].result = "ok"
    /\ otpRecords[req[p].rec].used
    /\ otpRecords[req[p].rec].resendCount >= 1
    /\ otpRecords[req[p].rec].expiresAt - ExpiryMs
         > otpRecords[req[p].rec].createdAt + ExpiryMs
    /\ clock < otpRecords[req[p].rec].expiresAt

StaleIds(e) ==
  {i \in getLatestActiveOtp(otpRecords, e) \ {0} :
     clock >= otpRecords[i].createdAt + ResendWindowMs}

\* the invalidated records of an identity
InvalidatedIds(e) == {i \in RecordsOf(e) : otpRecords[i].invalidated}

\* the steps by which a send replaces the active records of its identity:
\* all of them are marked invalidated, then one record with the send's code
\* is added and is the only active one
SupersedeSteps(p) ==
  /\ pc[p] = "invalidate"
       => \A j \in ActiveIds(otpRecords, req[p].email) :
            otpRecords'[j] = [otpRecords[j] EXCEPT !.invalidated = TRUE]
  /\ pc[p] = "insertRecord"
       => /\ Len(otpRecords') = Len(otpRecords) + 1
          /\ ActiveIds(otpRecords', req[p].email) = {Len(otpRecords')}
          /\ otpRecords'[Len(otpRecords')].otpCode = req[p].otp
          /\ otpRecords'[Len(otpRecords')].email = req[p].email

\* a verify with the code of the latest active record before its expiry
\* goes through
ActiveVerifyOf(p, i) ==
  ( /\ Receives(p, "verify")
    /\ clock < otpRecords[i].expiresAt
    /\ req'[p].otp = otpRecords[i].otpCode )
  => pc'[p] = "verifyUpdate" /\ req'[p].rec = i

\* C11 as stated (SeqSpec): a send that passes the gate while the active
\* record's resend window has run out always (when generation does not give
\* up) creates a record with a code other than the old one and invalidates
\* the old record; afterwards every verify with the code of an invalidated
\* record fails and a verify with the new code before its expiry succeeds.
C11_SupersedeAlwaysNewCode ==
  [][\A p \in Procs :
       /\ \A i \in StaleIds(req[p].email) :
            /\ pc[p] = "findExisting" => pc'[p] = "generate"
            /\ pc[p] = "generate"
                 => \/ Ends(p, "GenerationExhausted")
                    \/ /\ pc'[p] = "invalidate"
                       /\ req'[p].otp # otpRecords[i].otpCode
       /\ SupersedeSteps(p)
       /\ \A j \in InvalidatedIds(req'[p].email) :
            (Receives(p, "verify") /\ req'[p].otp = otpRecords[j].otpCode)
              => pc'[p] = "done" /\ req'[p].result # "ok"
       /\ \A i \in getLatestActiveOtp(otpRecords, req'[p].email) \ {0} :
            ActiveVerifyOf(p, i)
    ]_vars

\* C11 (SeqSpec): a send that passes the gate while the active record's
\* resend window has run out goes on to generate a code, which is none of
\* the codes issued to the identity in the uniqueness window (so not the old
\* record's code when that record is younger than the window), or gives up
\* with GenerationExhausted; it then invalidates the old record and adds one
\* active record with the new code.  Afterwards a verify with an invalidated
\* record's code that is not the active record's code fails, and a verify
\* with the active record's code before its expiry succeeds.
C11_Supersede ==
  [][\A p \in Procs :
       /\ \A i \in StaleIds(req[p].email) :
            /\ pc[p] = "findExisting" => pc'[p] = "generate"
            /\ pc[p] = "generate"
                 => \/ Ends(p, "GenerationExhausted")
                    \/ /\ pc'[p] = "invalidate"
                       /\ \A h \in DOMAIN otpHistory :
                            ( /\ otpHistory[h].email = req[p].email
                              /\ otpHistory[h].createdAt >= clock - UniquenessWindowMs )
                            => req'[p].otp # otpHistory[h].otpCode
                       /\ otpRecords[i].createdAt >= clock - UniquenessWindowMs
                            => req'[p].otp # otpRecords[i].otpCode
       /\ SupersedeSteps(p)
       /\ \A j \in InvalidatedIds(req'[p].email) :
            ( /\ Receives(p, "verify")
              /\ req'[p].otp = otpRecords[j].otpCode
              /\ \A i \in ActiveIds(otpRecords, req'[p].email) :
                   otpRecords[i].otpCode # otpRecords[j].otpCode )
            => pc'[p] = "done" /\ req'[p].result # "ok"
       /\ \A i \in getLatestActiveOtp(otpRecords, req'[p].email) \ {0} :
            ActiveVerifyOf(p, i)
    ]_vars

\* after a send replaced a record whose resend window had run out, a verify
\* with the old code has failed while the new record is active and unexpired
C11_Witness ==
  \E p \in Procs :
    /\ pc[p] = "done" /\ req[p].op = "verify"
    /\ req[p].result = "InvalidOtpError"
    /\ \E j \in InvalidatedIds(req[p].email) :
         /\ otpRecords[j].otpCode = req[p].otp
         /\ \E i \in ActiveIds(otpRecords, req[p].email) :
              /\ otpRecords[i].createdAt >= otpRecords[j].createdAt + ResendWindowMs
              /\ clock < otpRecords[i].expiresAt

\* C12 as stated (SeqSpec): a verify fails with OtpExpiredError whenever
\* now >= expiresAt of the active record, now = expiresAt included, and goes
\* through only when now < expiresAt.
C12_ExpiredAtExpiresAt ==
  [][\A p \in Procs :
       \A i \in getLatestActiveOtp(otpRecords, req'[p].email) \ {0} :
         Receives(p, "verify")
           => /\ clock >= otpRecords[i].expiresAt => Ends(p, "OtpExpiredError")
              /\ pc'[p] = "verifyUpdate" => clock < otpRecords[i].expiresAt
    ]_vars

\* C12 (SeqSpec): a verify fails with OtpExpiredError, whatever code it
\* carries, whenever now > expiresAt of the active record; it goes through
\* only when now <= expiresAt, and at now = expiresAt a verify with the
\* record's code does go through.
C12_ExpiryBoundary ==
  [][\A p \in Procs :
       \A i \in getLatestActiveOtp(otpRecords, req'[p].email) \ {0} :
         Receives(p, "verify")
           => /\ clock > otpRecords[i].expiresAt => Ends(p, "OtpExpiredError")
              /\ pc'[p] = "verifyUpdate" => clock <= otpRecords[i].expiresAt
              /\ ( /\ clock = otpRecords[i].expiresAt
                   /\ req'[p].otp = otpRecords[i].otpCode )
                 => pc'[p] = "verifyUpdate" /\ req'[p].rec = i
    ]_vars

\* a verify has succeeded at the very instant its record expires
C12_Witness ==
  \E p \in Procs :
    /\ pc[p] = "done" /\ req[p].op = "verify" /\ req[p].result = "ok"
    /\ otpRecords[req[p].rec].used
    /\ otpRecords[req[p].rec].expiresAt = clock

\* C13 (SeqSpec): a verify that ends with OtpNotFoundError, OtpExpiredError
\* or InvalidOtpError leaves the three tables as they were; a verify with a
\* code other than the unexpired active record's ends with InvalidOtpError,
\* and the record, unchanged and still active, is then verified by a verify
\* with its code before expiry.
C13_FailedVerifyWritesNothing ==
  [][\A p \in Procs :
       /\ ( /\ Receives(p, "verify")
            /\ \/ Ends(p, "OtpNotFoundError")
               \/ Ends(p, "OtpExpiredError")
               \/ Ends(p, "InvalidOtpError") )
          => UNCHANGED <<otpRecords, otpHistory, otpRateLimit>>
       /\ \A i \in getLatestActiveOtp(otpRecords, req'[p].email) \ {0} :
            /\ ( /\ Receives(p, "verify")
                 /\ clock <= otpRecords[i].expiresAt
                 /\ req'[p].otp # otpRecords[i].otpCode )
               => /\ Ends(p, "InvalidOtpError")
                  /\ otpRecords'[i] = otpRecords[i]
                  /\ i \in getLatestActiveOtp(otpRecords', req'[p].email)
            /\ ( /\ Receives(p, "verify")
                 /\ clock <= otpRecords[i].expiresAt
                 /\ req'[p].otp = otpRecords[i].otpCode )
               => pc'[p] = "verifyUpdate" /\ req'[p].rec = i
    ]_vars

\* a verify with a wrong code has just failed and the identity's record is
\* still active and unexpired under another code
C13_Witness ==
  \E p \in Procs :
    /\ pc[p] = "done" /\ req[p].op = "verify"
    /\ req[p].result = "InvalidOtpError"
    /\ \E i \in ActiveIds(otpRecords, req[p].email) :
         /\ otpRecords[i].otpCode # req[p].otp
         /\ clock <= otpRecords[i].expiresAt
         /\ otpRecords[i].resendCount = 0

\* C14 (SeqSpec): a send ends with RateLimitError only in the step that
\* receives it, and has then written nothing: code records, history and
\* rate-limit log are as before and no mail call was made; the log only
\* grows by the entry of a send that passed the gate, so a rejected send is
\* not counted against later ones.
C14_RejectedSendWritesNothing ==
  [][\A p \in Procs :
       /\ (Receives(p, "send") /\ Ends(p, "RateLimitError"))
            => /\ UNCHANGED <<otpRecords, otpHistory, otpRateLimit>>
               /\ req'[p].mail = "none"
       /\ ~Idle(p) => ~Ends(p, "RateLimitError")
       /\ otpRateLimit' # otpRateLimit
            => \E q \in Procs :
                 /\ pc[q] = "recordRateLimit"
                 /\ otpRateLimit' = Append(otpRateLimit,
                      [email |-> req[q].email, requestedAt |-> clock])
    ]_vars

\* a send has been rejected and the log holds exactly the entries of the
\* sends that were let through
C14_Witness ==
  \E p \in Procs :
    /\ pc[p] = "done" /\ req[p].op = "send" /\ req[p].result = "RateLimitError"
    /\ req[p].mail = "none"
    /\ Cardinality(EntriesIn(req[p].email, 0, clock)) = MAX_OTP_REQUESTS_PER_HOUR

\* C15 (SeqSpec): a resend called by a client never writes the rate-limit
\* log and never ends with RateLimitError; a send that passed the gate adds
\* one entry for its identity, before it looks for a record, and none after
\* that, also when it is handled as a resend; and a send is let through
\* whenever fewer than MAX_OTP_REQUESTS_PER_HOUR entries of its identity lie
\* in the last hour, however many resends were made.
C15_ResendNotRateLimited ==
  [][\A p \in Procs :
       /\ (Receives(p, "resend") \/ (req[p].op = "resend" /\ ~Idle(p)))
            => /\ UNCHANGED otpRateLimit
               /\ req'[p].result # "RateLimitError"
       /\ pc[p] = "recordRateLimit"
            => otpRateLimit' = Append(otpRateLimit,
                 [email |-> req[p].email, requestedAt |-> clock])
       /\ (req[p].op = "send" /\ ~Idle(p) /\ pc[p] # "recordRateLimit")
            => UNCHANGED otpRateLimit
       /\ pc[p] = "resend"
            => /\ otpRateLimit # <<>>
               /\ otpRateLimit[Len(otpRateLimit)]
                    = [email |-> req[p].email, requestedAt |-> clock]
       /\ ( /\ Receives(p, "send")
            /\ Cardinality(EntriesIn(req'[p].email, clock - HourMs, clock))
                 < MAX_OTP_REQUESTS_PER_HOUR )
          => pc'[p] = "recordRateLimit"
    ]_vars

\* a send was let through and handled as a resend after a resend called by
\* a client: the record was resent as often as the log has entries
C15_Witness ==
  \E p \in Procs :
    /\ pc[p] = "done" /\ req[p].op = "send" /\ req[p].result = "ok"
    /\ RecordsOf(req[p].email) = {req[p].rec}
    /\ otpRecords[req[p].rec].resendCount
         >= Cardinality(EntriesIn(req[p].email, 0, clock))

\* the history entries of identity e stamped in [lo, hi]
HistoryIn(e, lo, hi) ==
  {h \in DOMAIN otpHistory :
     /\ otpHistory[h].email = e
     /\ lo <= otpHistory[h].createdAt
     /\ otpHistory[h].createdAt <= hi}

\* no two history entries of one identity at most a uniqueness window apart
\* carry the same code
HistoryUnique ==
  \A i, j \in DOMAIN otpHistory :
    ( /\ i < j
      /\ otpHistory[i].email = otpHistory[j].email
      /\ otpHistory[j].createdAt - otpHistory[i].createdAt <= UniquenessWindowMs )
    => otpHistory[i].otpCode # otpHistory[j].otpCode

\* C16 (SeqSpec): the code a send generates differs from the code of every
\* history entry of its identity stamped in the last uniqueness window, so
\* with sends served one at a time no two codes issued to an identity within
\* a uniqueness window of each other are equal.
C16_UniqueInWindow ==
  [][ /\ \A p \in Procs :
           (pc[p] = "generate" /\ pc'[p] = "invalidate")
             => \A h \in HistoryIn(req[p].email, clock - UniquenessWindowMs, clock) :
                  req'[p].otp # otpHistory[h].otpCode
      /\ HistoryUnique'
    ]_vars

\* an identity has been issued a second code inside the uniqueness window
\* of its first
C16_Witness ==
  \E i, j \in DOMAIN otpHistory :
    /\ i < j
    /\ otpHistory[i].email = otpHistory[j].email
    /\ otpHistory[j].createdAt - otpHistory[i].createdAt < UniquenessWindowMs
    /\ otpHistory[i].otpCode # otpHistory[j].otpCode

\* a string of otpLength decimal digits
IsSixDigits(code) ==
  Len(code) = otpLength /\ \A k \in 1..Len(code) : \E d \in 1..10 : code[k] = Digits[d]

\* C17 as stated (SeqSpec): the generator's codes are the 6-digit strings
\* from 000000 on: every generated code is six digits, and the lowest draw
\* gives 000000, the highest 999999.
C17_CodeSpaceFromZero ==
  \A p \in Procs :
    pc[p] = "invalidate"
      => /\ IsSixDigits(req[p].otp)
         /\ req[p].draw = 0 => req[p].otp = [k \in 1..otpLength |-> "0"]
         /\ req[p].draw = otpMax - otpMin => req[p].otp = [k \in 1..otpLength |-> "9"]

\* C18 as stated (SeqSpec): a send or resend whose mail call failed still
\* ends with success.
C18_NotifierFailureSwallowed ==
  \A p \in Procs :
    (pc[p] = "done" /\ req[p].mail = "failed") => req[p].result = "ok"

\* C18 (SeqSpec): the mail call is the last step of a send (new code or
\* handled as a resend) and of a resend; when it fails the handler ends with
\* that error, when it returns the handler ends with success, and either way
\* the tables stay as the handler's earlier steps left them.
C18_NotifierFailurePropagates ==
  [][\A p \in Procs :
       /\ pc[p] \in {"sendEmail", "resendEmail"}
            => /\ UNCHANGED <<otpRecords, otpHistory, otpRateLimit>>
               /\ \/ req'[p].mail = "failed" /\ Ends(p, "EmailFailed")
                  \/ req'[p].mail = "sent" /\ Ends(p, "ok")
       /\ (pc'[p] = "done" /\ req'[p].op \in {"send", "resend"})
            => /\ req'[p].result = "ok" <=> req'[p].mail = "sent"
               /\ req'[p].result = "EmailFailed" <=> req'[p].mail = "failed"
    ]_vars

\* a send has ended with the mail error while the record and history entry
\* it wrote are in place
C18_Witness ==
  \E p \in Procs :
    /\ pc[p] = "done" /\ req[p].op = "send"
    /\ req[p].mail = "failed" /\ req[p].result = "EmailFailed"
    /\ req[p].rec \in ActiveIds(otpRecords, req[p].email)
    /\ otpRecords[req[p].rec].resendCount = 0
    /\ \E h \in DOMAIN otpHistory :
         otpHistory[h].email = req[p].email /\ otpHistory[h].otpCode = req[p].otp

\* every code record has a history entry of the same identity and code
RecordsHaveHistory ==
  \A i \in DOMAIN otpRecords :
    \E h \in DOMAIN otpHistory :
      /\ otpHistory[h].email = otpRecords[i].email
      /\ otpHistory[h].otpCode = otpRecords[i].otpCode

\* C19 (Spec): record and history entry are persisted as one unit: whenever
\* a request is about to scan the history for the codes in use, every code
\* record in the store has its history entry.
C19_RecordAndHistoryAsOneUnit ==
  (\E p \in Procs : pc[p] = "generate") => RecordsHaveHistory

\* C20 (SeqSpec): a resend writes one thing: in the identity's latest
\* active record expiresAt becomes now + expiry and resendCount one more;
\* the record's other fields, all other records, the history and the
\* rate-limit log are unchanged by every step of the resend.
C20_ResendInPlace ==
  [][\A p \in Procs :
       /\ pc[p] = "resendUpdate"
            => /\ req[p].rec \in getLatestActiveOtp(otpRecords, req[p].email)
               /\ otpRecords' =
                    [otpRecords EXCEPT ![req[p].rec] =
                       [@ EXCEPT !.expiresAt = clock + ExpiryMs,
                                 !.resendCount = @ + 1]]
       /\ ( /\ Receives(p, "resend") \/ (req[p].op = "resend" /\ ~Idle(p))
            /\ pc[p] # "resendUpdate" )
          => UNCHANGED otpRecords
       /\ (Receives(p, "resend") \/ (req[p].op = "resend" /\ ~Idle(p)))
            => UNCHANGED <<otpHistory, otpRateLimit>>
    ]_vars

\* a resend has succeeded some time after the record was created: the
\* record is extended from now, counted, and otherwise as it was created
C20_Witness ==
  \E p \in Procs :
    /\ pc[p] = "done" /\ req[p].op = "resend" /\ req[p].result = "ok"
    /\ otpRecords[req[p].rec].expiresAt = clock + ExpiryMs
    /\ otpRecords[req[p].rec].createdAt < clock
    /\ otpRecords[req[p].rec].resendCount = 1
    /\ otpRecords[req[p].rec].otpCode = req[p].otp
    /\ IsActive(otpRecords[req[p].rec])
    /\ Len(otpRecords) = 1 /\ Len(otpHistory) = 1 /\ Len(otpRateLimit) = 1

\* p is inside a resend called by a client, or receives one in this step
InResend(p) == Receives(p, "resend") \/ (req[p].op = "resend" /\ ~Idle(p))

\* the resend checks of a request just received: OtpNotFoundError without an
\* active record, OtpExpiredError once the latest active record's resend
\* window has run out, wherever its expiresAt lies
ResendRefusals(p) ==
  /\ (Receives(p, "resend") /\ ActiveIds(otpRecords, req'[p].email) = {})
       => Ends(p, "OtpNotFoundError")
  /\ \A i \in StaleIds(req'[p].email) :
       Receives(p, "resend") => Ends(p, "OtpExpiredError")

\* C21 as stated (SeqSpec): a resend fails with OtpNotFoundError without an
\* active record and with OtpExpiredError outside the resend window, and
\* every resend that fails has written nothing and made no mail call: once
\* a resend is past its checks it does not fail.
C21_EveryFailingResendWritesNothing ==
  [][\A p \in Procs :
       /\ ResendRefusals(p)
       /\ (InResend(p) /\ pc'[p] = "done" /\ req'[p].result # "ok")
            => /\ Receives(p, "resend")
               /\ UNCHANGED <<otpRecords, otpHistory, otpRateLimit>>
               /\ req'[p].mail = "none"
    ]_vars

\* C21 (SeqSpec): a resend fails with OtpNotFoundError without an active
\* record and with OtpExpiredError outside the resend window; a resend that
\* ends with OtpNotFoundError, OtpExpiredError or MaxResendExceededError
\* does so in the step that receives it, having written nothing and made no
\* mail call; the only other failure of a resend is that of the mail call,
\* after the record was extended.
C21_RefusedResendWritesNothing ==
  [][\A p \in Procs :
       /\ ResendRefusals(p)
       /\ (InResend(p) /\ pc'[p] = "done" /\ req'[p].result # "ok")
            => \/ /\ Receives(p, "resend")
                  /\ req'[p].result \in {"OtpNotFoundError", "OtpExpiredError",
                                         "MaxResendExceededError"}
                  /\ UNCHANGED <<otpRecords, otpHistory, otpRateLimit>>
                  /\ req'[p].mail = "none"
               \/ /\ pc[p] = "resendEmail"
                  /\ req'[p].result = "EmailFailed"
                  /\ req'[p].mail = "failed"
                  /\ otpRecords[req[p].rec].resendCount >= 1
    ]_vars

\* a resend has been refused with OtpExpiredError although the record could
\* still be verified
C21_Witness ==
  \E p \in Procs :
    /\ pc[p] = "done" /\ req[p].op = "resend"
    /\ req[p].result = "OtpExpiredError" /\ req[p].mail = "none"
    /\ \E i \in StaleIds(req[p].email) : clock <= otpRecords[i].expiresAt

\* what the first send leaves behind once it is at or past the mail call
FirstSendLeaves ==
  \A p \in Procs :
    ( /\ req[p].op = "send"
      /\ pc[p] = "sendEmail" \/ (pc[p] = "done" /\ req[p].result \in {"ok", "EmailFailed"})
      /\ requests = 1 )
    => /\ RecordsOf(req[p].email) = {req[p].rec}
       /\ otpRecords[req[p].rec] =
            [email |-> req[p].email, otpCode |-> req[p].otp,
             createdAt |-> otpRecords[req[p].rec].createdAt,
             expiresAt |-> otpRecords[req[p].rec].createdAt + ExpiryMs,
             resendCount |-> 0, used |-> FALSE, invalidated |-> FALSE]
       /\ IsSixDigits(req[p].otp)
       /\ otpRecords[req[p].rec].createdAt = otpRateLimit[1].requestedAt
       /\ Cardinality(HistoryIn(req[p].email, 0, clock)) = 1
       /\ \A h \in HistoryIn(req[p].email, 0, clock) :
            otpHistory[h].otpCode = req[p].otp
       /\ Cardinality(EntriesIn(req[p].email, 0, clock)) = 1

\* the first send always gets through: from an empty store it is neither
\* rate limited nor handed over to a resend nor short of codes
FirstSendGetsThrough ==
  \A p \in Procs :
    (requests = 1 /\ req[p].op = "send" /\ pc[p] = "done")
      => req[p].result \in {"ok", "EmailFailed"}

\* C22 (SeqSpec): the first send, from an empty store, is neither refused
\* nor short of codes, and when it has run through its
\* inserts (it is at or past the mail call and its rate-limit entry is the
\* identity's only one), the identity has exactly one code record: active,
\* resendCount 0, expiresAt one expiry after its creation, a code of six
\* digits; exactly one history entry, with that code; and exactly one
\* rate-limit entry.
C22_FirstSend == FirstSendGetsThrough /\ FirstSendLeaves

\* the first request of all was a send and it has ended with success
C22_Witness ==
  \E p \in Procs :
    /\ requests = 1
    /\ pc[p] = "done" /\ req[p].op = "send" /\ req[p].result = "ok"
    /\ Len(otpRecords) = 1 /\ IsActive(otpRecords[1])

\* the rows of identity e in a table, in the table's order
OwnRows(table, e) == SelectSeq(table, LAMBDA r : r.email = e)

\* what the handlers read about identity e is the same with the rows of all
\* other identities taken out of the store
ReadsOwnRowsOnly ==
  \A e \in Emails :
    /\ rateLimitCount(otpRateLimit, e, clock)
         = rateLimitCount(OwnRows(otpRateLimit, e), e, clock)
    /\ getUsedOtpsInWindow(otpHistory, e, clock)
         = getUsedOtpsInWindow(OwnRows(otpHistory, e), e, clock)
    /\ {otpRecords[i] : i \in getLatestActiveOtp(otpRecords, e) \ {0}}
         = {OwnRows(otpRecords, e)[i] :
              i \in getLatestActiveOtp(OwnRows(otpRecords, e), e) \ {0}}

\* C23 (SeqSpec): a step of a request for one identity leaves the code
\* records, history entries and rate-limit entries of every other identity
\* as they were, and what a request reads about its identity (rate-limit
\* count, codes in the uniqueness window, latest active record) does not
\* depend on the rows of other identities.
C23_PerIdentityIsolation ==
  [][ /\ \A e \in Emails :
           (\A p \in Procs : req'[p].email # e)
             => /\ OwnRows(otpRecords', e) = OwnRows(otpRecords, e)
                /\ OwnRows(otpHistory', e) = OwnRows(otpHistory, e)
                /\ OwnRows(otpRateLimit', e) = OwnRows(otpRateLimit, e)
      /\ ReadsOwnRowsOnly'
    ]_vars

\* a send for one identity has succeeded while another identity is at its
\* rate limit and has an active record
C23_Witness ==
  \E p \in Procs :
    /\ pc[p] = "done" /\ req[p].op = "send" /\ req[p].result = "ok"
    /\ req[p].rec \in ActiveIds(otpRecords, req[p].email)
    /\ \E e \in Emails \ {req[p].email} :
         /\ Cardinality(EntriesIn(e, clock - HourMs, clock))
              = MAX_OTP_REQUESTS_PER_HOUR
         /\ ActiveIds(otpRecords, e) # {}

\* the verifies that have ended
EndedVerifies == {p \in Procs : pc[p] = "done" /\ req[p].op = "verify"}

\* C24 (SeqSpec): a verify that ends with OtpNotFoundError, OtpExpiredError
\* or InvalidOtpError is answered with status 400 and the message 'Invalid
\* or expired OTP', one and the same answer for the three; only a verify
\* that succeeded is answered otherwise.
C24_SameAnswerForFailedVerify ==
  \A p \in EndedVerifies :
    /\ req[p].result \in {"OtpNotFoundError", "OtpExpiredError", "InvalidOtpError", "ok"}
    /\ req[p].result # "ok"
         => verifyResponse(req[p].result)
              = [status |-> 400, message |-> "Invalid or expired OTP"]
    /\ req[p].result = "ok" => verifyResponse(req[p].result).status = 200

\* a verify of an expired code has been answered like one with a wrong code
C24_Witness ==
  \E p \in EndedVerifies :
    /\ req[p].result = "OtpExpiredError"
    /\ \E i \in ActiveIds(otpRecords, req[p].email) :
         otpRecords[i].otpCode = req[p].otp
    /\ verifyResponse(req[p].result) = verifyResponse("InvalidOtpError")
    /\ verifyResponse(req[p].result) = verifyResponse("OtpNotFoundError")

\* C25 (Spec): in every step, also of concurrent requests, every code record
\* stays in the store under its id with its identity, code and createdAt; a
\* record that is used stays used and one that is invalidated stays
\* invalidated.
C25_TerminalFlagsNoDeletion ==
  [][\A i \in DOMAIN otpRecords :
       /\ i \in DOMAIN otpRecords'
       /\ otpRecords'[i].email = otpRecords[i].email
       /\ otpRecords'[i].otpCode = otpRecords[i].otpCode
       /\ otpRecords'[i].createdAt = otpRecords[i].createdAt
       /\ otpRecords[i].used => otpRecords'[i].used
       /\ otpRecords[i].invalidated => otpRecords'[i].invalidated
    ]_vars

\* a resend has written to a record that a concurrent verify had marked
\* used in the meantime, and the record is still used
C25_Witness ==
  \E p \in Procs :
    /\ pc[p] = "resendEmail"
    /\ otpRecords[req[p].rec].used
    /\ otpRecords[req[p].rec].resendCount >= 1

\* log' is log, or log with entries added at its end
Extends(log2, log1) ==
  Len(log1) <= Len(log2) /\ \A k \in DOMAIN log1 : log2[k] = log1[k]

\* C26 (Spec): in every step, also of concurrent requests, the issuance
\* history and the rate-limit log keep all their entries unchanged and at
\* most grow at the end; an entry is added only by a send, at its history
\* insert and at its rate-limit insert, never by a verify or a resend.
C26_AppendOnlyLogs ==
  [][ /\ Extends(otpHistory', otpHistory)
      /\ Extends(otpRateLimit', otpRateLimit)
      /\ otpHistory' # otpHistory
           => \E p \in Procs : req[p].op = "send" /\ pc[p] = "insertHistory"
      /\ otpRateLimit' # otpRateLimit
           => \E p \in Procs : req[p].op = "send" /\ pc[p] = "recordRateLimit"
      /\ \A p \in Procs :
           (req'[p].op \in {"verify", "resend"} /\ \A q \in Procs \ {p} : Idle(q))
             => UNCHANGED <<otpHistory, otpRateLimit>>
    ]_vars

\* both logs hold two entries and a verify has since succeeded
C26_Witness ==
  /\ Len(otpHistory) >= 2 /\ Len(otpRateLimit) >= 2
  /\ \E p \in Procs :
       pc[p] = "done" /\ req[p].op = "verify" /\ req[p].result = "ok"

\* the rate-limit entries of identity e stamped in [lo, hi)
EntriesBefore(e, lo, hi) ==
  {i \in EntriesIn(e, lo, hi) : otpRateLimit[i].requestedAt < hi}

\* C27 as stated (SeqSpec): the gate counts the identity's entries stamped
\* in [now - 1h, now), the entries stamped at now left out: a send is
\* rejected with RateLimitError exactly when MAX_OTP_REQUESTS_PER_HOUR or
\* more of them lie there.
C27_WindowOpenAtNow ==
  [][\A p \in Procs :
       Receives(p, "send")
         => ( Ends(p, "RateLimitError")
              <=> Cardinality(EntriesBefore(req'[p].email, clock - HourMs, clock))
                    >= MAX_OTP_REQUESTS_PER_HOUR )
    ]_vars

\* C27 (SeqSpec): the gate counts the identity's entries stamped at or after
\* now - 1h, the entry stamped exactly one hour ago and the entries stamped
\* at now included, older ones not: a send is rejected with RateLimitError
\* exactly when MAX_OTP_REQUESTS_PER_HOUR or more of them lie in
\* [now - 1h, now], and is let through as soon as fewer do.
C27_RollingWindow ==
  [][\A p \in Procs :
       Receives(p, "send")
         => /\ Ends(p, "RateLimitError")
                <=> Cardinality(EntriesIn(req'[p].email, clock - HourMs, clock))
                      >= MAX_OTP_REQUESTS_PER_HOUR
            /\ ~Ends(p, "RateLimitError") <=> pc'[p] = "recordRateLimit"
            /\ \A i \in DOMAIN otpRateLimit : otpRateLimit[i].requestedAt <= clock
    ]_vars

\* a send has been rejected on account of an entry stamped exactly one hour
\* before it
C27_Witness ==
  \E p \in Procs :
    /\ pc[p] = "done" /\ req[p].op = "send" /\ req[p].result = "RateLimitError"
    /\ Cardinality(EntriesIn(req[p].email, clock - HourMs, clock))
         = MAX_OTP_REQUESTS_PER_HOUR
    /\ EntriesIn(req[p].email, clock - HourMs, clock - HourMs) # {}

\* the codes in the uniqueness window of identity e at time now
WindowCodes(e, now) ==
  {otpHistory[h].otpCode : h \in HistoryIn(e, now - UniquenessWindowMs, now)}

\* a send that has not yet got past generateUniqueOtp
BeforeInvalidate(p) ==
  \/ Receives(p, "send")
  \/ (req[p].op = "send" /\ pc[p] \in {"recordRateLimit", "findExisting", "generate"})

\* C28 (SeqSpec): generateUniqueOtp ends after at most maxAttempts draws,
\* with a code outside the identity's uniqueness window or with the throw
\* after exactly maxAttempts draws; the send goes on with such a code or ends
\* with GenerationExhausted, and up to and including that step it has left
\* the code records and the history as they were, so a send that ends with
\* GenerationExhausted has added no record, no history entry, invalidated
\* nothing and sent no mail.
C28_BoundedGeneration ==
  [][\A p \in Procs :
       /\ BeforeInvalidate(p) => UNCHANGED <<otpRecords, otpHistory>>
       /\ (~Idle(p) /\ Ends(p, "GenerationExhausted"))
            => pc[p] = "generate" /\ req'[p].mail = "none"
       /\ pc[p] = "generate"
            => /\ \A o \in generateUniqueOtp(WindowCodes(req[p].email, clock)) :
                    /\ o.attempts \in 1..maxAttempts
                    /\ o.otp = NoCode => o.attempts = maxAttempts
                    /\ o.otp # NoCode => o.otp \notin WindowCodes(req[p].email, clock)
               /\ \/ Ends(p, "GenerationExhausted")
                  \/ /\ pc'[p] = "invalidate"
                     /\ req'[p].otp \in DrawnCodes \ WindowCodes(req[p].email, clock)
    ]_vars

\* a send has ended with GenerationExhausted and the identity's active
\* record is still there
C28_Witness ==
  \E p \in Procs :
    /\ pc[p] = "done" /\ req[p].op = "send"
    /\ req[p].result = "GenerationExhausted" /\ req[p].mail = "none"
    /\ ActiveIds(otpRecords, req[p].email) # {}

\* e has no capital letter and no space at either end
IsLowerTrimmed(e) ==
  /\ \A i \in 1..Len(e) : e[i] = toLowerCaseChar(e[i])
  /\ e # <<>> => (e[1] # " " /\ e[Len(e)] # " ")

\* e is raw with the spaces around it taken off and its letters lowercased
NormalFormOf(raw, e) ==
  /\ IsLowerTrimmed(e)
  /\ \E i \in 1..(Len(raw) + 1) :
       /\ \A k \in 1..(i - 1) : raw[k] = " "
       /\ \A k \in (i + Len(e))..Len(raw) : raw[k] = " "
       /\ i + Len(e) - 1 <= Len(raw)
       /\ \A k \in 1..Len(e) : toLowerCaseChar(raw[i + k - 1]) = e[k]

\* the rate-limit entries of the last hour whose identity is the normal form
\* of raw
EntriesOfRaw(raw) ==
  {i \in DOMAIN otpRateLimit :
     /\ NormalFormOf(raw, otpRateLimit[i].email)
     /\ clock - HourMs <= otpRateLimit[i].requestedAt}

\* every row is kept under a lowercased, trimmed identity; a request works
\* under the normal form of the identity it was given, and the record it
\* holds is one of that identity
NormalizedStore ==
  /\ \A i \in DOMAIN otpRecords : IsLowerTrimmed(otpRecords[i].email)
  /\ \A i \in DOMAIN otpHistory : IsLowerTrimmed(otpHistory[i].email)
  /\ \A i \in DOMAIN otpRateLimit : IsLowerTrimmed(otpRateLimit[i].email)
  /\ \A p \in Procs :
       /\ req[p].op # "none" => NormalFormOf(req[p].raw, req[p].email)
       /\ req[p].rec # 0 => otpRecords[req[p].rec].email = req[p].email

\* process p receives a request and its locals show it
Takes(p) ==
  /\ Idle(p) /\ requests' = requests + 1
  /\ pc'[p] # pc[p] \/ req'[p] # req[p]

\* a request is received and answered at once as the receiver's last one
\* was: any process that is done with that answer may be the receiver
Repeats(p) ==
  /\ pc[p] = "done" /\ requests' = requests + 1
  /\ pc' = pc /\ req' = req

\* how a request just received by p was answered: a send is refused exactly
\* when the entries of the normal form of its identity, whichever way they
\* were written, are at the ceiling; a verify or resend finds no record
\* exactly when that identity has no active record
AnsweredByNormalForm(p) ==
  /\ req'[p].op = "send"
       => ( Ends(p, "RateLimitError")
            <=> Cardinality(EntriesOfRaw(req'[p].raw))
                  >= MAX_OTP_REQUESTS_PER_HOUR )
  /\ req'[p].op \in {"verify", "resend"}
       => ( Ends(p, "OtpNotFoundError")
            <=> \A i \in DOMAIN otpRecords :
                  NormalFormOf(req'[p].raw, otpRecords[i].email)
                    => ~IsActive(otpRecords[i]) )

\* C29 (NormSpec): send, resend and verify work under the lowercased,
\* trimmed form of the identity they are given: every row is stored under
\* it, the record a request reads or writes is one of that identity, a send
\* is counted against the entries of that identity whichever way they were
\* written, and a verify or resend finds the active record of that
\* identity.
C29_NormalizedIdentity ==
  [][ /\ NormalizedStore'
      /\ \A p \in Procs : Takes(p) => AnsweredByNormalForm(p)
      /\ (\E p \in Procs : Repeats(p))
           => \E p \in Procs : Repeats(p) /\ AnsweredByNormalForm(p)
    ]_vars

\* a code sent to the identity written one way has been verified through
\* the identity written another way
C29_Witness ==
  \E p, q \in Procs :
    /\ pc[p] = "done" /\ req[p].op = "send" /\ req[p].result = "ok"
    /\ pc[q] = "done" /\ req[q].op = "verify" /\ req[q].result = "ok"
    /\ req[p].raw # req[q].raw
    /\ req[p].rec = req[q].rec
    /\ otpRecords[req[q].rec].used
    /\ otpRecords[req[q].rec].otpCode = req[p].otp

\* the rate-limit entry a send writes when the clock reads now
EntryOf(p, now) == [email |-> req[p].email, requestedAt |-> now]

\* a send between its rate-limit insert and its end
PastRateLimitInsert(p) ==
  /\ req[p].op = "send"
  /\ pc[p] \notin {"idle", "done", "recordRateLimit"}

\* what holds of every send whether or not the store fails: nothing is
\* written before the gate is passed, a send that passes goes to its
\* rate-limit insert first, no other step writes the rate-limit log, and
\* once the entry is in, it is the last of the log for as long as the send
\* runs and when it ends, however it ends
SlotKept ==
  /\ otpRateLimit' # otpRateLimit
       => \E p \in Procs : pc[p] = "recordRateLimit" /\ pc'[p] # pc[p]
  /\ \A p \in Procs :
       /\ Receives(p, "send")
            => /\ UNCHANGED <<otpRecords, otpHistory, otpRateLimit>>
               /\ \/ pc'[p] = "recordRateLimit"
                  \/ Ends(p, "RateLimitError")
                  \/ Ends(p, "StoreError")
       /\ PastRateLimitInsert(p)
            => /\ otpRateLimit # <<>>
               /\ otpRateLimit[Len(otpRateLimit)] = EntryOf(p, clock)
               /\ otpRateLimit' = otpRateLimit
               /\ req'[p].email = req[p].email
               /\ pc'[p] = "done"
                    => req'[p].result \in {"ok", "EmailFailed", "StoreError",
                                           "GenerationExhausted",
                                           "MaxResendExceededError"}

\* C30 as stated (FailSpec): every send that passes the rate-limit gate
\* appends exactly one rate-limit entry before any other step, the entry
\* stays when the send then fails, and a send appends no second entry.
C30_EveryPassingSendAppends ==
  [][ /\ SlotKept
      /\ \A p \in Procs :
           pc[p] = "recordRateLimit"
             => /\ otpRateLimit' = Append(otpRateLimit, EntryOf(p, clock))
                /\ UNCHANGED <<otpRecords, otpHistory>>
                /\ pc'[p] = "findExisting"
    ]_vars

\* C30 (FailSpec): the first statement of a send that passes the rate-limit
\* gate is the insert of one rate-limit entry.  If the insert goes through,
\* the entry stays when the send then fails (resend refused, generation
\* exhausted, a later store failure, notifier failure); if the insert itself
\* fails, the send ends with that failure and has written nothing.  A send
\* appends no second entry.
C30_SlotConsumedOnceInserted ==
  [][ /\ SlotKept
      /\ \A p \in Procs :
           pc[p] = "recordRateLimit"
             => /\ UNCHANGED <<otpRecords, otpHistory>>
                /\ \/ /\ otpRateLimit' = Append(otpRateLimit, EntryOf(p, clock))
                      /\ pc'[p] = "findExisting"
                   \/ /\ UNCHANGED otpRateLimit
                      /\ Ends(p, "StoreError")
    ]_vars

\* the first request of all was a send that got its rate-limit entry in and
\* then failed on a later statement of the store, the entry its only trace
C30_Witness ==
  \E p \in Procs :
    /\ requests = 1
    /\ pc[p] = "done" /\ req[p].op = "send" /\ req[p].result = "StoreError"
    /\ otpRateLimit = <<EntryOf(p, clock)>>
    /\ otpRecords = <<>> /\ otpHistory = <<>>

\* the active records of an identity that no other active record of it is
\* newer than
NewestActive(e) ==
  {i \in ActiveIds(otpRecords, e) :
     \A j \in ActiveIds(otpRecords, e) :
       otpRecords[j].createdAt <= otpRecords[i].createdAt}

\* C31 (SeqSpec): the checks are made in a fixed order.  A resend or verify
\* for an identity without an active record ends with OtpNotFoundError
\* whatever else it carries; a resend whose active record is outside the
\* resend window ends with OtpExpiredError also when the record's
\* resendCount is at MAX_RESEND_COUNT; a verify whose active record is past
\* its expiresAt ends with OtpExpiredError also when the code is wrong.
C31_CheckOrder ==
  [][\A p \in Procs :
       /\ ( /\ Receives(p, "resend") \/ Receives(p, "verify")
            /\ ActiveIds(otpRecords, req'[p].email) = {} )
            => Ends(p, "OtpNotFoundError")
       /\ \A i \in NewestActive(req'[p].email) :
            /\ ( /\ Receives(p, "resend")
                 /\ clock >= otpRecords[i].createdAt + ResendWindowMs )
                 => Ends(p, "OtpExpiredError")
            /\ ( /\ Receives(p, "verify")
                 /\ clock > otpRecords[i].expiresAt )
                 => Ends(p, "OtpExpiredError")
    ]_vars

\* a resend has ended with OtpExpiredError on an active record that is
\* outside its resend window and has used up its resends
C31_Witness ==
  \E p \in Procs :
    /\ pc[p] = "done" /\ req[p].op = "resend" /\ req[p].result = "OtpExpiredError"
    /\ \E i \in NewestActive(req[p].email) :
         /\ clock >= otpRecords[i].createdAt + ResendWindowMs
         /\ otpRecords[i].resendCount = MAX_RESEND_COUNT

\* p is in a send that has inserted its new record
PastInsertRecord(p) ==
  req[p].op = "send" /\ pc[p] \in {"insertHistory", "sendEmail"}

\* whatever the store held, the record insert of a send leaves the new
\* record as the identity's only active one, and so it stays to the end of
\* the send: every record that was active before is invalidated
OnlyNewRecordActive ==
  \A p \in Procs :
    /\ (req[p].op = "send" /\ pc[p] = "insertRecord")
         => /\ ActiveIds(otpRecords', req[p].email) = {Len(otpRecords')}
            /\ req'[p].rec = Len(otpRecords') /\ Len(otpRecords') = Len(otpRecords) + 1
            /\ otpRecords'[req'[p].rec].otpCode = req[p].otp
            /\ \A j \in RecordsOf(req[p].email) : otpRecords'[j].invalidated \/ otpRecords'[j].used
    /\ PastInsertRecord(p)
         => ActiveIds(otpRecords', req[p].email) = {req[p].rec}

\* the records that a send's new-code path has replaced by record i, now the
\* identity's only active one
SupersededBy(i) ==
  {j \in InvalidatedIds(otpRecords[i].email) :
     j < i /\ ActiveIds(otpRecords, otpRecords[i].email) = {i}}

\* C32 as stated (SeedSpec): from any store, also one with several active
\* records of the identity, the new-code path of a send leaves exactly one
\* active record, the new one, and a verify with the code of any older
\* record then fails.
C32_OlderCodesAlwaysFail ==
  [][ /\ OnlyNewRecordActive
      /\ \A p \in Procs : \A i \in NewestActive(req'[p].email) : \A j \in SupersededBy(i) :
           (Receives(p, "verify") /\ req'[p].otp = otpRecords[j].otpCode)
             => pc'[p] = "done" /\ req'[p].result # "ok"
    ]_vars

\* C32 (SeedSpec): from any store, also one with several active records of
\* the identity, the new-code path of a send leaves exactly one active
\* record, the new one; a verify with the code of an older record then
\* fails whenever that code is not also the code of the new record.
C32_OlderCodesFailUnlessRedrawn ==
  [][ /\ OnlyNewRecordActive
      /\ \A p \in Procs : \A i \in NewestActive(req'[p].email) : \A j \in SupersededBy(i) :
           ( /\ Receives(p, "verify")
             /\ req'[p].otp = otpRecords[j].otpCode
             /\ otpRecords[j].otpCode # otpRecords[i].otpCode )
             => pc'[p] = "done" /\ req'[p].result \in {"InvalidOtpError", "OtpExpiredError"}
    ]_vars

\* a send has gone through the new-code path on a store that held two
\* active records of the identity, and a verify with the code of one of the
\* two has then been turned down as a wrong code
C32_Witness ==
  \E p \in Procs :
    /\ pc[p] = "done" /\ req[p].op = "verify" /\ req[p].result = "InvalidOtpError"
    /\ Len(otpRecords) = 3
    /\ ActiveIds(otpRecords, req[p].email) = {3}
    /\ otpRecords[1].invalidated /\ otpRecords[2].invalidated
    /\ req[p].otp = otpRecords[1].otpCode

\* the requests that are inside resendOtp past its checks, holding record i
Resending(i) ==
  {p \in Procs : pc[p] \in {"resendUpdate", "resendEmail"} /\ req[p].rec = i}

\* C33 (RaceSpec): in every reachable state, however concurrent sends and
\* resends interleave, every code record has
\* 0 <= resendCount <= MAX_RESEND_COUNT.
C33_ResendCountInRange ==
  \A i \in DOMAIN otpRecords :
    otpRecords[i].resendCount \in 0..MAX_RESEND_COUNT

\* two requests are inside resendOtp on one record at once, past their
\* checks, and the record's resendCount stands at MAX_RESEND_COUNT
C33_Witness ==
  \E i \in DOMAIN otpRecords :
    /\ Cardinality(Resending(i)) = 2
    /\ \E p \in Resending(i) : pc[p] = "resendUpdate"
    /\ otpRecords[i].resendCount = MAX_RESEND_COUNT

\* the requests that have ended with a re-notification of record i
\* delivered: resends, and sends that were handed over to resendOtp
Renotified(i) ==
  {p \in Procs :
     /\ pc[p] = "done" /\ req[p].result = "ok" /\ req[p].mail = "sent"
     /\ req[p].rec = i
     /\ req[p].op = "resend" \/ (req[p].op = "send" /\ req[p].draw = -1)}

\* C34 (Spec): however concurrent resends interleave, every resend that
\* goes through raises the stored resendCount by exactly one, so the
\* re-notifications delivered for a record never outnumber its resendCount
\* and never exceed MAX_RESEND_COUNT.
C34_NoResendLost ==
  [][ /\ \A p \in Procs :
           (pc[p] = "resendUpdate" /\ pc'[p] = "resendEmail")
             => otpRecords'[req[p].rec].resendCount
                  = otpRecords[req[p].rec].resendCount + 1
      /\ \A i \in DOMAIN otpRecords' :
           /\ Cardinality(Renotified(i)') <= otpRecords'[i].resendCount
           /\ Cardinality(Renotified(i)') <= MAX_RESEND_COUNT
    ]_vars

\* C35 (Spec): however a verify and a concurrent superseding send
\* interleave, the verify's update never marks used a record that is
\* already invalidated, so no record is ever both used and invalidated.
C35_NeverUsedAndInvalidated ==
  [][ /\ \A p \in Procs :
           (pc[p] = "verifyUpdate" /\ pc'[p] = "done")
             => ~otpRecords[req[p].rec].invalidated
      /\ \A i \in DOMAIN otpRecords' :
           ~(otpRecords'[i].used /\ otpRecords'[i].invalidated)
    ]_vars

\* C36 (Spec): a send never ends with OtpNotFoundError or OtpExpiredError,
\* also when a concurrent verify or send takes the active record away, or
\* the clock passes the end of the resend window, between the send's own
\* lookup and the lookup of the resendOtp it hands over to.
C36_SendNeverNotFoundOrExpired ==
  \A p \in Procs :
    (req[p].op = "send" /\ pc[p] = "done")
      => req[p].result \notin {"OtpNotFoundError", "OtpExpiredError"}

\* the instant from which no verify of record i can succeed any more
LifetimeEnd(i) == otpRecords[i].createdAt + ResendWindowMs + ExpiryMs

C38_TerminalRecordsFrozen ==
  [][ /\ \A i \in DOMAIN otpRecords :
           ~IsActive(otpRecords[i])
             => /\ otpRecords'[i].expiresAt = otpRecords[i].expiresAt
                /\ otpRecords'[i].resendCount = otpRecords[i].resendCount
      /\ \A p \in Procs :
           (pc[p] = "resendEmail" /\ pc'[p] = "done" /\ req'[p].mail = "sent")
             => IsActive(otpRecords[req[p].rec])
    ]_vars

\* C39 (Spec): however concurrent sends for one identity interleave on the
\* new-code path, no two of them issue the same code: the identity's
\* history never holds two entries with equal codes whose createdAt lie
\* less than the uniqueness window apart.
C39_UniqueUnderConcurrency ==
  \A i, j \in DOMAIN otpHistory :
    ( /\ i < j
      /\ otpHistory[i].email = otpHistory[j].email
      /\ otpHistory[j].createdAt - otpHistory[i].createdAt < UniquenessWindowMs )
    => otpHistory[i].otpCode # otpHistory[j].otpCode

====
